---------------------------- MODULE Spec2Model ----------------------------
(***************************************************************************)
(* Model of main.go: the SDL2 demo's frame loop (Game.Run), its motion     *)
(* functions (moveSprite, moveText), the colour randomiser (randColor),    *)
(* the music toggle (pauseUnpauseMusic), the ticker goroutine started by   *)
(* Run, and main's teardown (defer g.Close(), defer closeSDL()).           *)
(*                                                                         *)
(* The specifications share the variables:                                 *)
(*   Spec        the whole program: main -> Run -> Close, with the host's  *)
(*               event queue and keyboard and the ticker goroutine         *)
(*               interleaved with the loop's statements;                   *)
(*   SpecText    moveText applied once to positions and velocities drawn   *)
(*               from a grid around the arena's edges;                     *)
(*   SpecBounce  moveText iterated from the centred start of Game.Init;    *)
(*   SpecSprite  moveSprite iterated from (0,0) under every keyboard;      *)
(*   SpecArena   either of the two, from Game.Init, for every title size;  *)
(*   SpecColor   randColor called from its two call sites.                 *)
(***************************************************************************)
EXTENDS Integers, Sequences, FiniteSets

VARIABLES
    pc,             \* position of main/Run: see RunPcs
    frame,          \* frames completed (bounded by the guards)
    queue,          \* SDL's event queue, oldest first
    nEvents,        \* events the host has enqueued so far (their arrival ids)
    keyboard,       \* scancodes currently held (sdl.GetKeyboardState)
    spriteRect,     \* g.spriteRect
    spriteVelocity, \* g.spriteVelocity
    textRect,       \* g.textRect
    textXVelocity,  \* g.textXVelocity
    textYVelocity,  \* g.textYVelocity
    drawColor,      \* the renderer's draw colour (SetDrawColor)
    musicPlaying,   \* mix.PlayingMusic()
    musicPaused,    \* mix.PausedMusic()
    tickerC,        \* ticks buffered in ticker.C (capacity 1)
    tickerStopped,  \* ticker.Stop() has run
    gpc,            \* the goroutine: "recv" (blocked on ticker.C) or "fire"
    writers,        \* history: the contexts that have called SetDrawColor
    flog,           \* history: what the loop did in the current frame, in order
    prevSprite,     \* history: g.spriteRect when the current frame began
    prevText,       \* history: g.textRect when the current frame began
    prevVX,         \* history: g.textXVelocity when the current frame began
    prevVY          \* history: g.textYVelocity when the current frame began

vars == <<pc, frame, queue, nEvents, keyboard, spriteRect, spriteVelocity,
          textRect, textXVelocity, textYVelocity, drawColor, musicPlaying,
          musicPaused, tickerC, tickerStopped, gpc, writers, flog,
          prevSprite, prevText, prevVX, prevVY>>

---------------------------------------------------------------------------
(* Program constants *)

windowWidth == 800
windowHeight == 600
spriteWidth == 128
spriteHeight == 128
spriteVelocityInit == 10
textVelocity == 2

(* Bounds of the model *)

MaxFrames == 2
MaxEvents == 2
MaxTextFrames == 600
Margin == 3
MaxSpeed == 3

---------------------------------------------------------------------------
(* Rectangles, keys, events, colours *)

Rect(x, y, w, h) == [X |-> x, Y |-> y, W |-> w, H |-> h]

\* Go's integer division truncates toward zero.
GoDiv(a, b) == IF a >= 0 THEN a \div b ELSE -((-a) \div b)

\* The size of the rendered title comes from the font file; these are the
\* sizes the model tries.
TextSizes == {<<300, 100>>, <<427, 93>>, <<795, 596>>, <<796, 596>>, <<799, 599>>}

RunTextSizes == {<<300, 100>>, <<796, 596>>}

InitTextRect(sz) ==
    Rect(GoDiv(windowWidth - sz[1], 2), GoDiv(windowHeight - sz[2], 2), sz[1], sz[2])

InitSpriteRect == Rect(0, 0, spriteWidth, spriteHeight)

Arrows == {"UP", "DOWN", "LEFT", "RIGHT"}
Wasd == {"W", "A", "S", "D"}

\* The keyboards the host is made to hold: every combination of the arrows,
\* every combination of WASD, and two that mix them.
KeyboardStates == (SUBSET Arrows) \cup (SUBSET Wasd) \cup {{"UP", "S"}, {"A", "RIGHT"}}

\* The keyboards tried under the whole-program specification.
RunKeyboards == {{}, {"S", "D"}}

anyMoveKey(kb) == kb \cap (Arrows \cup Wasd) # {}

QuitEvent == [type |-> "QUIT", sym |-> "NONE"]
KeyEvent(t, s) == [type |-> t, sym |-> s]

EventKinds ==
    {QuitEvent,
     KeyEvent("KEYDOWN", "ESCAPE"),
     KeyEvent("KEYDOWN", "SPACE"), KeyEvent("KEYUP", "SPACE"),
     KeyEvent("KEYDOWN", "m")}

\* rand.Intn(256) yields 0..255; these are the triples of draws the
\* whole-program specification tries.
RunDraws == {<<0, 0, 0>>, <<255, 128, 7>>}

\* Variant of uint8: the conversion is to the signed type int8.
int8(n) == IF (n % 256) >= 128 THEN (n % 256) - 256 ELSE n % 256

uint8(n) == n % 256

\* Values of rand.Intn(256) the colour specification tries.
IntnDraws == {0, 1, 127, 128, 254, 255}

\* Lines 296-299: the colour randColor sets from three draws.
randColor(d) == <<uint8(d[1]), uint8(d[2]), uint8(d[3])>>

\* Line 297: the three draws, each converted to uint8.
RandColors == {randColor(d) : d \in RunDraws}

Entry(op, arg) == [op |-> op, arg |-> arg]

Ops(log) == [i \in 1..Len(log) |-> log[i].op]

Count(log, op) == Cardinality({i \in 1..Len(log) : log[i].op = op})

Has(log, op) == \E i \in 1..Len(log) : log[i].op = op

---------------------------------------------------------------------------
(* moveText, main.go 282-294 *)

\* Variant of hitsWall: strict comparisons, a rectangle touching a wall does
\* not count.
hitsWallLoose(pos, size, bound) == pos < 0 \/ pos + size > bound

\* The test of lines 286 and 290, on the position already advanced.
hitsWall(pos, size, bound) == pos <= 0 \/ pos + size >= bound

\* Variant of advance: the new position is brought back to the wall it crossed.
advanceClamped(pos, v, size, bound) ==
    IF pos + v < 0 THEN 0 ELSE IF pos + v + size > bound THEN bound - size ELSE pos + v

\* Lines 283 and 284: the position is advanced by the velocity, whatever it is.
advance(pos, v, size, bound) == pos + v

\* Variant of moveText: one wall sound at most per call.
moveTextOnePlay(r, vx, vy) ==
    LET x1 == advance(r.X, vx, r.W, windowWidth)
        y1 == advance(r.Y, vy, r.H, windowHeight)
        fx == hitsWall(x1, r.W, windowWidth)
        fy == hitsWall(y1, r.H, windowHeight)
    IN  [rect  |-> [r EXCEPT !.X = x1, !.Y = y1],
         vx    |-> IF fx THEN -vx ELSE vx,
         vy    |-> IF fy THEN -vy ELSE vy,
         plays |-> IF fx THEN <<Entry("PlaySDL", "X")>>
                   ELSE IF fy THEN <<Entry("PlaySDL", "Y")>> ELSE <<>>]

\* Variant of moveText: the walls are tested on the projected position and the
\* rectangle is moved by the velocity already flipped.
moveTextFlipFirst(r, vx, vy) ==
    LET fx == hitsWall(r.X + vx, r.W, windowWidth)
        fy == hitsWall(r.Y + vy, r.H, windowHeight)
        vx1 == IF fx THEN -vx ELSE vx
        vy1 == IF fy THEN -vy ELSE vy
    IN  [rect  |-> [r EXCEPT !.X = r.X + vx1, !.Y = r.Y + vy1],
         vx    |-> vx1,
         vy    |-> vy1,
         plays |-> (IF fx THEN <<Entry("PlaySDL", "X")>> ELSE <<>>)
                   \o (IF fy THEN <<Entry("PlaySDL", "Y")>> ELSE <<>>)]

\* Variant of moveText: an axis that hits a wall stops instead of turning
\* back.
moveTextStop(r, vx, vy) ==
    LET x1 == advance(r.X, vx, r.W, windowWidth)
        y1 == advance(r.Y, vy, r.H, windowHeight)
        fx == hitsWall(x1, r.W, windowWidth)
        fy == hitsWall(y1, r.H, windowHeight)
    IN  [rect  |-> [r EXCEPT !.X = x1, !.Y = y1],
         vx    |-> IF fx THEN 0 ELSE vx,
         vy    |-> IF fy THEN 0 ELSE vy,
         plays |-> (IF fx THEN <<Entry("PlaySDL", "X")>> ELSE <<>>)
                   \o (IF fy THEN <<Entry("PlaySDL", "Y")>> ELSE <<>>)]

\* Variant of moveText: one test for the four walls, a hit on either axis
\* turns both velocities.
moveTextFlipBoth(r, vx, vy) ==
    LET x1 == advance(r.X, vx, r.W, windowWidth)
        y1 == advance(r.Y, vy, r.H, windowHeight)
        f  == hitsWall(x1, r.W, windowWidth) \/ hitsWall(y1, r.H, windowHeight)
    IN  [rect  |-> [r EXCEPT !.X = x1, !.Y = y1],
         vx    |-> IF f THEN -vx ELSE vx,
         vy    |-> IF f THEN -vy ELSE vy,
         plays |-> IF f THEN <<Entry("PlaySDL", "X")>> ELSE <<>>]

\* The result of one call: the rectangle, the two velocities, and the
\* chunkSDL.Play calls it made, in order, each tagged with the axis whose
\* branch made it (line 288: "X", line 292: "Y").
moveText(r, vx, vy) ==
    LET x1 == advance(r.X, vx, r.W, windowWidth)
        y1 == advance(r.Y, vy, r.H, windowHeight)
        fx == hitsWall(x1, r.W, windowWidth)
        fy == hitsWall(y1, r.H, windowHeight)
    IN  [rect  |-> [r EXCEPT !.X = x1, !.Y = y1],
         vx    |-> IF fx THEN -vx ELSE vx,
         vy    |-> IF fy THEN -vy ELSE vy,
         plays |-> (IF fx THEN <<Entry("PlaySDL", "X")>> ELSE <<>>)
                   \o (IF fy THEN <<Entry("PlaySDL", "Y")>> ELSE <<>>)]

---------------------------------------------------------------------------
(* moveSprite, main.go 258-280 *)

held(kb, arrow, letter) == arrow \in kb \/ letter \in kb

\* Lines 259-263.
spriteUp(r, kb, v) ==
    IF held(kb, "UP", "W") /\ r.Y >= 0 /\ r.Y - v >= 0
    THEN [r EXCEPT !.Y = r.Y - v] ELSE r

\* Variant of spriteDown: only the first test of line 265, on the position
\* before the move.
spriteDownLoose(r, kb, v) ==
    IF held(kb, "DOWN", "S") /\ r.Y + r.H < windowHeight
    THEN [r EXCEPT !.Y = r.Y + v] ELSE r

\* Lines 264-268.
spriteDown(r, kb, v) ==
    IF held(kb, "DOWN", "S") /\ r.Y + r.H < windowHeight /\ r.Y + r.H + v <= windowHeight
    THEN [r EXCEPT !.Y = r.Y + v] ELSE r

\* Variant of spriteLeft: only the first test of line 270, on the position
\* before the move.
spriteLeftLoose(r, kb, v) ==
    IF held(kb, "LEFT", "A") /\ r.X >= 0
    THEN [r EXCEPT !.X = r.X - v] ELSE r

\* Lines 269-273.
spriteLeft(r, kb, v) ==
    IF held(kb, "LEFT", "A") /\ r.X > 0 /\ r.X - v >= 0
    THEN [r EXCEPT !.X = r.X - v] ELSE r

\* Variant of spriteRight: a blocked move snaps the sprite to the right edge.
spriteRightSnap(r, kb, v) ==
    IF held(kb, "RIGHT", "D")
    THEN IF r.X + r.W + v <= windowWidth
         THEN [r EXCEPT !.X = r.X + v]
         ELSE [r EXCEPT !.X = windowWidth - r.W]
    ELSE r

\* Lines 274-278.
spriteRight(r, kb, v) ==
    IF held(kb, "RIGHT", "D") /\ r.X + r.W < windowWidth /\ r.X + r.W + v <= windowWidth
    THEN [r EXCEPT !.X = r.X + v] ELSE r

\* Variant of moveSprite: the four directions are all tested on the
\* rectangle the frame started with, and the permitted steps are summed.
moveSpriteFromStart(r, kb, v) ==
    [r EXCEPT !.X = r.X + (spriteLeft(r, kb, v).X - r.X) + (spriteRight(r, kb, v).X - r.X),
              !.Y = r.Y + (spriteUp(r, kb, v).Y - r.Y) + (spriteDown(r, kb, v).Y - r.Y)]

\* The four directions are tried in the order up, down, left, right, each on
\* the rectangle the one before it left.
moveSprite(r, kb, v) ==
    spriteRight(spriteLeft(spriteDown(spriteUp(r, kb, v), kb, v), kb, v), kb, v)

---------------------------------------------------------------------------
(* pauseUnpauseMusic, main.go 248-256: the new value of the paused flag *)

\* Variant of pauseUnpauseMusic: the mix.PlayingMusic() test of line 249 is
\* missing.
pauseUnpauseAlways(playing, paused) == ~paused

pauseUnpauseMusic(playing, paused) ==
    IF playing THEN ~paused ELSE paused

---------------------------------------------------------------------------
(* The whole program: main (301-312), Game.Run (196-246) *)

\* "start": NewGame has returned, Run not yet called.  "poll" .. "delay": the
\* part of Run's loop that runs next.  "returned": Run has returned and
\* its deferred ticker.Stop() has run.  "closed": main's deferred g.Close()
\* has destroyed the renderer.  "exited": closeSDL has run and the process
\* is gone.
RunPcs == {"start", "poll", "keys", "clear", "render", "delay", "returned",
           "closed", "exited"}

LoopPcs == {"poll", "keys", "clear", "render", "delay"}

\* Game.Init, lines 82-87, 124 and 130, for a title rendered at size sz.
InitGame(sz) ==
    /\ spriteRect = InitSpriteRect
    /\ spriteVelocity = spriteVelocityInit
    /\ textRect = InitTextRect(sz)
    /\ textXVelocity = textVelocity
    /\ textYVelocity = textVelocity
    /\ prevSprite = InitSpriteRect
    /\ prevText = InitTextRect(sz)
    /\ prevVX = textVelocity
    /\ prevVY = textVelocity

\* What no specification but the whole program's moves.
InitHost ==
    /\ frame = 0
    /\ queue = <<>>
    /\ nEvents = 0
    /\ drawColor = <<0, 0, 0>>
    /\ musicPlaying = FALSE
    /\ musicPaused = FALSE
    /\ tickerC = 0
    /\ tickerStopped = FALSE
    /\ gpc = "idle"
    /\ writers = {}
    /\ flog = <<>>

Init ==
    /\ pc = "start"
    /\ keyboard \in RunKeyboards
    /\ InitHost
    /\ \E sz \in RunTextSizes : InitGame(sz)

gameVars == <<spriteRect, spriteVelocity, textRect, textXVelocity, textYVelocity>>
prevVars == <<prevSprite, prevText, prevVX, prevVY>>
musicVars == <<musicPlaying, musicPaused>>
tickerVars == <<tickerC, tickerStopped, gpc>>
colorVars == <<drawColor, writers>>
hostVars == <<queue, nEvents, keyboard>>

\* Lines 197-208: the music is started (its error is dropped, so it may not
\* be playing), the ticker is created and the goroutine started.
RunStart ==
    /\ pc = "start"
    /\ pc' = "poll"
    /\ musicPlaying' \in BOOLEAN
    /\ gpc' = "recv"
    /\ UNCHANGED <<frame, hostVars, gameVars, prevVars, musicPaused, tickerC,
                   tickerStopped, colorVars, flog>>

\* The host appends an input or window event to SDL's queue, at any time
\* until Run returns.
HostEvent ==
    /\ pc \in LoopPcs \cup {"start"}
    /\ nEvents < MaxEvents
    /\ \E e \in EventKinds :
           queue' = Append(queue, [type |-> e.type, sym |-> e.sym, id |-> nEvents + 1])
    /\ nEvents' = nEvents + 1
    /\ UNCHANGED <<pc, frame, keyboard, gameVars, prevVars, musicVars, tickerVars,
                   colorVars, flog>>

\* The held keys change.  The loop reads them once a frame (line 231), so the
\* model lets them change between frames only.
HostKeyboard ==
    /\ pc = "delay"
    /\ \E kb \in RunKeyboards \ {keyboard} : keyboard' = kb
    /\ UNCHANGED <<pc, frame, queue, nEvents, gameVars, prevVars, musicVars,
                   tickerVars, colorVars, flog>>

\* Variant of isQuit: the case *sdl.QuitEvent is missing from the switch.
isQuitIgnored(e) == FALSE

\* Variant of isDown: the Type == sdl.KEYDOWN test is missing, a key-up
\* counts as well.
isDownAnyType(e, s) == e.type \in {"KEYDOWN", "KEYUP"} /\ e.sym = s

isQuit(e) == e.type = "QUIT"
isDown(e, s) == e.type = "KEYDOWN" /\ e.sym = s

\* Variant of PollNil: the drain is an "if", it ends after one event.
PollNilEarly ==
    /\ pc = "poll"
    /\ queue = <<>> \/ Has(flog, "Poll")
    /\ pc' = "keys"
    /\ flog' = Append(flog, Entry("PollNil", nEvents))
    /\ UNCHANGED <<frame, hostVars, gameVars, prevVars, musicVars, tickerVars,
                   colorVars>>

\* Line 211: PollEvent returns nil, the inner loop ends.
PollNil ==
    /\ pc = "poll"
    /\ queue = <<>>
    /\ pc' = "keys"
    /\ flog' = Append(flog, Entry("PollNil", nEvents))
    /\ UNCHANGED <<frame, hostVars, gameVars, prevVars, musicVars, tickerVars,
                   colorVars>>

\* Variant of PollReturn: a quit transition only leaves the drain.
PollBreak ==
    /\ pc = "poll"
    /\ queue # <<>>
    /\ isQuit(Head(queue)) \/ isDown(Head(queue), "ESCAPE")
    /\ queue' = Tail(queue)
    /\ flog' = flog \o <<Entry("Poll", Head(queue))>>
    /\ pc' = "keys"
    /\ UNCHANGED <<frame, nEvents, keyboard, gameVars, prevVars, musicVars,
                   tickerVars, colorVars>>

\* Lines 214-215 and 217-220: Run returns, and its deferred ticker.Stop()
\* (line 202) runs.  Stop sends no further tick; a tick already buffered
\* stays receivable (Go before 1.23) or is discarded (Go 1.23 and later).
PollReturn ==
    /\ pc = "poll"
    /\ queue # <<>>
    /\ isQuit(Head(queue)) \/ isDown(Head(queue), "ESCAPE")
    /\ queue' = Tail(queue)
    /\ flog' = flog \o <<Entry("Poll", Head(queue)), Entry("Return", 0)>>
    /\ pc' = "returned"
    /\ tickerStopped' = TRUE
    /\ tickerC' \in {tickerC, 0}
    /\ UNCHANGED <<frame, nEvents, keyboard, gameVars, prevVars, musicVars,
                   gpc, colorVars>>

\* Lines 221-224: chunkGo.Play, then randColor in the loop's own context.
PollSpace ==
    /\ pc = "poll"
    /\ queue # <<>>
    /\ isDown(Head(queue), "SPACE")
    /\ queue' = Tail(queue)
    /\ \E c \in RandColors :
           /\ drawColor' = c
           /\ flog' = flog \o <<Entry("Poll", Head(queue)), Entry("PlayGo", 0),
                                Entry("SetDrawColor", c)>>
    /\ writers' = writers \cup {"loop"}
    /\ UNCHANGED <<pc, frame, nEvents, keyboard, gameVars, prevVars, musicVars,
                   tickerVars>>

\* Lines 225-227.
PollM ==
    /\ pc = "poll"
    /\ queue # <<>>
    /\ isDown(Head(queue), "m")
    /\ queue' = Tail(queue)
    /\ musicPaused' = pauseUnpauseMusic(musicPlaying, musicPaused)
    /\ flog' = flog \o <<Entry("Poll", Head(queue))>>
    /\ UNCHANGED <<pc, frame, nEvents, keyboard, gameVars, prevVars, musicPlaying,
                   tickerVars, colorVars>>

\* Any other event falls through the switch.
PollOther ==
    /\ pc = "poll"
    /\ queue # <<>>
    /\ ~isQuit(Head(queue))
    /\ ~isDown(Head(queue), "ESCAPE")
    /\ ~isDown(Head(queue), "SPACE")
    /\ ~isDown(Head(queue), "m")
    /\ queue' = Tail(queue)
    /\ flog' = flog \o <<Entry("Poll", Head(queue))>>
    /\ UNCHANGED <<pc, frame, nEvents, keyboard, gameVars, prevVars, musicVars,
                   tickerVars, colorVars>>

\* Line 232: whether any of the eight movement keys is held.
moveKeyHeld(kb) == anyMoveKey(kb)

\* Lines 231-234 on the snapshot kb: the rectangle they leave and what they
\* did (the snapshot read, and the call of moveSprite when one is made).
keysStep(r, kb, v) ==
    IF moveKeyHeld(kb)
    THEN LET moved == moveSprite(r, kb, v)
         IN  [rect |-> moved, log |-> <<Entry("Keys", kb), Entry("MoveSprite", moved)>>]
    ELSE [rect |-> r, log |-> <<Entry("Keys", kb)>>]

\* Lines 231-234.
Keys ==
    /\ pc = "keys"
    /\ pc' = "clear"
    /\ LET k == keysStep(spriteRect, keyboard, spriteVelocity)
       IN  /\ spriteRect' = k.rect
           /\ flog' = flog \o k.log
    /\ UNCHANGED <<frame, hostVars, spriteVelocity, textRect, textXVelocity,
                   textYVelocity, prevVars, musicVars, tickerVars, colorVars>>

\* Variant of Clear: line 235 uncommented, randColor before every Clear.
ClearRandom ==
    /\ pc = "clear"
    /\ pc' = "render"
    /\ \E c \in RandColors :
           /\ drawColor' = c
           /\ flog' = flog \o <<Entry("SetDrawColor", c), Entry("Clear", c)>>
    /\ writers' = writers \cup {"loop"}
    /\ UNCHANGED <<frame, hostVars, gameVars, prevVars, musicVars, tickerVars>>

\* Line 236: the renderer is cleared with its draw colour of the moment.
Clear ==
    /\ pc = "clear"
    /\ pc' = "render"
    /\ flog' = Append(flog, Entry("Clear", drawColor))
    /\ UNCHANGED <<frame, hostVars, gameVars, prevVars, musicVars, tickerVars, colorVars>>

\* Variant of Render: the text is copied before moveText advances it.
RenderStale ==
    /\ pc = "render"
    /\ pc' = "delay"
    /\ LET m == moveText(textRect, textXVelocity, textYVelocity)
       IN  /\ textRect' = m.rect
           /\ textXVelocity' = m.vx
           /\ textYVelocity' = m.vy
           /\ flog' = flog \o <<Entry("CopyBackground", 0),
                                Entry("CopyText", textRect),
                                Entry("MoveText", m.rect)>>
                           \o m.plays
                           \o <<Entry("CopySprite", spriteRect), Entry("Present", 0)>>
    /\ UNCHANGED <<frame, hostVars, spriteRect, spriteVelocity, prevVars, musicVars,
                   tickerVars, colorVars>>

\* Lines 237-242: the background is copied, the text advanced (moveText),
\* the text and the sprite copied at their rectangles, the frame presented.
\* These statements touch nothing the goroutine or the host touches, so they
\* are one step.
Render ==
    /\ pc = "render"
    /\ pc' = "delay"
    /\ LET m == moveText(textRect, textXVelocity, textYVelocity)
       IN  /\ textRect' = m.rect
           /\ textXVelocity' = m.vx
           /\ textYVelocity' = m.vy
           /\ flog' = flog \o <<Entry("CopyBackground", 0), Entry("MoveText", m.rect)>>
                           \o m.plays
                           \o <<Entry("CopyText", m.rect),
                                Entry("CopySprite", spriteRect),
                                Entry("Present", 0)>>
    /\ UNCHANGED <<frame, hostVars, spriteRect, spriteVelocity, prevVars, musicVars,
                   tickerVars, colorVars>>

\* Line 244, and the jump back to line 211: the next frame begins.
Delay ==
    /\ pc = "delay"
    /\ frame < MaxFrames - 1
    /\ frame' = frame + 1
    /\ pc' = "poll"
    /\ flog' = <<>>
    /\ prevSprite' = spriteRect
    /\ prevText' = textRect
    /\ prevVX' = textXVelocity
    /\ prevVY' = textYVelocity
    /\ UNCHANGED <<hostVars, gameVars, musicVars, tickerVars, colorVars>>

\* The runtime sends a tick to ticker.C (line 201) unless the ticker has been
\* stopped; a tick that finds the buffer full is dropped.
TickerSend ==
    /\ gpc # "idle"
    /\ pc # "exited"
    /\ ~tickerStopped
    /\ tickerC = 0
    /\ tickerC' = 1
    /\ UNCHANGED <<pc, frame, hostVars, gameVars, prevVars, musicVars, tickerStopped,
                   gpc, colorVars, flog>>

\* Line 205: the goroutine receives a tick.
GoroutineRecv ==
    /\ gpc = "recv"
    /\ pc # "exited"
    /\ tickerC = 1
    /\ tickerC' = 0
    /\ gpc' = "fire"
    /\ UNCHANGED <<pc, frame, hostVars, gameVars, prevVars, musicVars, tickerStopped,
                   colorVars, flog>>

\* Line 206: the goroutine calls randColor.  On a renderer that Close has
\* destroyed the call is a use after free: it may write the colour, fail
\* without writing, or end the process.
GoroutineFire ==
    /\ gpc = "fire"
    /\ pc # "exited"
    /\ gpc' = "recv"
    /\ writers' = writers \cup {"timer"}
    /\ IF pc = "closed"
       THEN /\ drawColor' \in RandColors \cup {drawColor}
            /\ pc' \in {"closed", "exited"}
       ELSE /\ drawColor' \in RandColors
            /\ pc' = pc
    /\ UNCHANGED <<frame, hostVars, gameVars, prevVars, musicVars, tickerC,
                   tickerStopped, flog>>

\* Line 309: main's deferred g.Close() destroys the window and the renderer.
MainClose ==
    /\ pc = "returned"
    /\ pc' = "closed"
    /\ musicPlaying' = FALSE
    /\ UNCHANGED <<frame, hostVars, gameVars, prevVars, musicPaused, tickerVars,
                   colorVars, flog>>

\* Line 306: main's deferred closeSDL(), and the process ends.
MainExit ==
    /\ pc = "closed"
    /\ pc' = "exited"
    /\ UNCHANGED <<frame, hostVars, gameVars, prevVars, musicVars, tickerVars,
                   colorVars, flog>>

Next ==
    \/ RunStart
    \/ HostEvent
    \/ HostKeyboard
    \/ PollNil
    \/ PollReturn
    \/ PollSpace
    \/ PollM
    \/ PollOther
    \/ Keys
    \/ Clear
    \/ Render
    \/ Delay
    \/ TickerSend
    \/ GoroutineRecv
    \/ GoroutineFire
    \/ MainClose
    \/ MainExit

Spec == Init /\ [][Next]_vars

---------------------------------------------------------------------------
(* moveText on its own *)

\* The positions tried on one axis: around both walls and the middle.
AxisGrid(size, bound) ==
    (-Margin .. Margin) \cup ((bound - size - Margin) .. (bound - size + Margin))
        \cup {GoDiv(bound - size, 2)}

InitText ==
    /\ pc = "fn"
    /\ keyboard = {}
    /\ InitHost
    /\ spriteRect = InitSpriteRect
    /\ spriteVelocity = spriteVelocityInit
    /\ prevSprite = InitSpriteRect
    /\ \E sz \in TextSizes :
         \E x \in AxisGrid(sz[1], windowWidth), y \in AxisGrid(sz[2], windowHeight) :
           /\ textRect = Rect(x, y, sz[1], sz[2])
           /\ prevText = Rect(x, y, sz[1], sz[2])
    /\ textXVelocity \in -MaxSpeed .. MaxSpeed
    /\ textYVelocity \in -MaxSpeed .. MaxSpeed
    /\ prevVX = textXVelocity
    /\ prevVY = textYVelocity

\* One call of moveText (line 239), as a frame of its own.
TextMove ==
    /\ pc = "fn"
    /\ frame' = frame + 1
    /\ LET m == moveText(textRect, textXVelocity, textYVelocity)
       IN  /\ textRect' = m.rect
           /\ textXVelocity' = m.vx
           /\ textYVelocity' = m.vy
           /\ flog' = <<Entry("MoveText", m.rect)>> \o m.plays
    /\ prevText' = textRect
    /\ prevVX' = textXVelocity
    /\ prevVY' = textYVelocity
    /\ UNCHANGED <<pc, hostVars, spriteRect, spriteVelocity, prevSprite, musicVars,
                   tickerVars, colorVars>>

TextOnce == frame = 0 /\ TextMove

NextText == TextOnce

SpecText == InitText /\ [][NextText]_vars

InitBounce ==
    /\ pc = "fn"
    /\ keyboard = {}
    /\ InitHost
    /\ \E sz \in TextSizes : InitGame(sz)

TextFrame == frame < MaxTextFrames /\ TextMove

NextBounce == TextFrame

SpecBounce == InitBounce /\ [][NextBounce]_vars

---------------------------------------------------------------------------
(* moveSprite on its own *)

InitSprite ==
    /\ pc = "fn"
    /\ keyboard = {}
    /\ InitHost
    /\ InitGame(<<300, 100>>)

\* Lines 231-234 of one frame, under a keyboard the host chooses.
SpriteFrame ==
    /\ pc = "fn"
    /\ \E kb \in KeyboardStates :
         LET k == keysStep(spriteRect, kb, spriteVelocity)
         IN  /\ keyboard' = kb
             /\ spriteRect' = k.rect
             /\ flog' = k.log
    /\ prevSprite' = spriteRect
    /\ UNCHANGED <<pc, frame, queue, nEvents, spriteVelocity, textRect, textXVelocity,
                   textYVelocity, prevText, prevVX, prevVY, musicVars, tickerVars,
                   colorVars>>

NextSprite == SpriteFrame

SpecSprite == InitSprite /\ [][NextSprite]_vars

---------------------------------------------------------------------------
(* moveSprite and moveText, each on its own from Game.Init.  moveSprite     *)
(* reads and writes spriteRect only, moveText textRect and the two text     *)
(* velocities only, so the pairs (sprite, text) the program can reach are   *)
(* the pairs of values each reaches alone: a behaviour here moves one of    *)
(* the two entities and leaves the other where Game.Init put it.  The       *)
(* sprite is moved under one title size, the text under each of them.       *)

InitArena == InitBounce

ArenaSprite ==
    /\ frame = 0
    /\ textRect = InitTextRect(<<300, 100>>)
    /\ SpriteFrame

ArenaText == (frame > 0 \/ flog = <<>>) /\ TextFrame

NextArena == ArenaSprite \/ ArenaText

SpecArena == InitArena /\ [][NextArena]_vars

---------------------------------------------------------------------------
(* randColor on its own, called from the goroutine and from the loop *)

InitColor == InitSprite

\* One call of randColor from the context `who`.
ColorCall(who) ==
    /\ pc = "fn"
    /\ \E r \in IntnDraws, g \in IntnDraws, b \in IntnDraws :
         /\ drawColor' = randColor(<<r, g, b>>)
         /\ flog' = <<Entry("SetDrawColor", randColor(<<r, g, b>>))>>
    /\ writers' = writers \cup {who}
    /\ UNCHANGED <<pc, frame, hostVars, gameVars, prevVars, musicVars, tickerVars>>

\* Line 206.
ColorFromTimer == ColorCall("timer")

\* Line 223.
ColorFromLoop == ColorCall("loop")

NextColor == ColorFromTimer \/ ColorFromLoop

SpecColor == InitColor /\ [][NextColor]_vars

---------------------------------------------------------------------------
(* Claims about moveText *)

\* The chunkSDL.Play calls the last moveText made from the branch of `axis`.
WallPlays(axis) ==
    Cardinality({i \in 1..Len(flog) : flog[i] = Entry("PlaySDL", axis)})

\* What the claim C1 says of one axis: advanced by the velocity; flipped with
\* one bounce event when the new position is outside lo..hi, else neither.
AxisFlipsOutside(old, new, v, v2, axis, lo, hi) ==
    /\ new = old + v
    /\ IF new < lo \/ new > hi
       THEN v2 = -v /\ WallPlays(axis) = 1
       ELSE v2 = v /\ WallPlays(axis) = 0

\* C1 as stated (checked along the text's own path from its centred start,
\* for each title size): after one moveText step the position is position + velocity
\* on both axes, and an axis flips its velocity and reports exactly one
\* bounce event if the new position lies outside [0, arenaBound - size], and
\* otherwise keeps its velocity and reports none.
C1_FlipOutsideClosedRange ==
    frame > 0 =>
        /\ AxisFlipsOutside(prevText.X, textRect.X, prevVX, textXVelocity, "X",
                            0, windowWidth - textRect.W)
        /\ AxisFlipsOutside(prevText.Y, textRect.Y, prevVY, textYVelocity, "Y",
                            0, windowHeight - textRect.H)

\* C1 as amended: the same with the range taken open: an axis flips, with
\* exactly one bounce event, if the new position lies outside
\* [1, arenaBound - size - 1], that is also when the rectangle just touches
\* a wall; otherwise its velocity is unchanged and it reports no event.
C1_FlipOutsideOpenRange ==
    frame > 0 =>
        /\ AxisFlipsOutside(prevText.X, textRect.X, prevVX, textXVelocity, "X",
                            1, windowWidth - textRect.W - 1)
        /\ AxisFlipsOutside(prevText.Y, textRect.Y, prevVY, textYVelocity, "Y",
                            1, windowHeight - textRect.H - 1)

\* A step that lands exactly on the left wall flips x and reports one event,
\* while y, well inside, does neither.
C1_Witness ==
    /\ frame > 0
    /\ prevText.X = 2 /\ prevVX = -2 /\ textRect.X = 0
    /\ textXVelocity = 2
    /\ WallPlays("X") = 1
    /\ textRect.Y > Margin /\ textRect.Y + textRect.H < windowHeight - Margin
    /\ textYVelocity = prevVY
    /\ textRect.Y = prevText.Y + prevVY
    /\ WallPlays("Y") = 0

\* C6: moveText is an edge-detect, not a clamp: an axis flips its velocity,
\* and plays the wall sound once, exactly when the position after adding the
\* old velocity is <= 0 or position + size >= arenaBound; the position
\* stored is position + old velocity, never moved back to the wall.
C6_EdgeDetectNotClamp ==
    frame = 1 =>
        LET hitX == textRect.X <= 0 \/ textRect.X + textRect.W >= windowWidth
            hitY == textRect.Y <= 0 \/ textRect.Y + textRect.H >= windowHeight
        IN  /\ textRect = [prevText EXCEPT !.X = prevText.X + prevVX,
                                           !.Y = prevText.Y + prevVY]
            /\ (WallPlays("X") = 1) <=> hitX
            /\ (WallPlays("X") = 0) <=> ~hitX
            /\ (WallPlays("Y") = 1) <=> hitY
            /\ (WallPlays("Y") = 0) <=> ~hitY
            /\ textXVelocity = IF hitX THEN -prevVX ELSE prevVX
            /\ textYVelocity = IF hitY THEN -prevVY ELSE prevVY
            /\ Len(flog) = 1 + WallPlays("X") + WallPlays("Y")

\* A step that carries the rectangle past the right wall: the position kept
\* is beyond the wall, and the velocity is flipped with one wall sound.
C6_Witness ==
    /\ frame = 1
    /\ prevText.X + prevText.W < windowWidth
    /\ textRect.X + textRect.W > windowWidth
    /\ textXVelocity = -prevVX
    /\ WallPlays("X") = 1

\* The text has moved right from its start every frame so far, and its right
\* edge has now reached the wall: x + w >= 800 holds for the first time.
FirstAtRightWall ==
    /\ frame > 0
    /\ textRect.W = 300 /\ textRect.H = 100
    /\ textRect.X = InitTextRect(<<300, 100>>).X + frame * textVelocity
    /\ textRect.X + textRect.W >= windowWidth

\* C5 as stated: text 300x100 from (250,250) with velocity (2,2): in the
\* frame where x + w >= 800 first holds the wall sound is played exactly
\* once in total, and the x velocity for the next frame is -2.
C5_OneBounceInTotal ==
    FirstAtRightWall =>
        /\ WallPlays("X") + WallPlays("Y") = 1
        /\ textXVelocity = -2

\* C5 as amended: in that frame the wall sound is played exactly once for
\* the x axis and, since y + h >= 600 first holds in the same frame, once
\* more for the y axis (two bounce events in total); the x velocity for the
\* next frame is -2, and so is the y velocity.
C5_CornerBounce ==
    FirstAtRightWall =>
        /\ WallPlays("X") = 1
        /\ WallPlays("Y") = 1
        /\ Len(flog) = 3
        /\ textRect.Y + textRect.H >= windowHeight
        /\ prevText.Y + prevText.H < windowHeight
        /\ textXVelocity = -2
        /\ textYVelocity = -2

\* The frame in which the 300x100 text first reaches the right wall.
C5_Witness ==
    /\ FirstAtRightWall
    /\ prevText.X + prevText.W < windowWidth
    /\ prevVX = 2

---------------------------------------------------------------------------
(* Claims about moveSprite *)

InArena(r) ==
    /\ 0 <= r.X /\ r.X <= windowWidth - r.W
    /\ 0 <= r.Y /\ r.Y <= windowHeight - r.H

\* The move of one held direction from the frame's starting rectangle would
\* leave the range [0, arenaBound - size].
UpLeaves == held(keyboard, "UP", "W") /\ prevSprite.Y - spriteVelocity < 0
DownLeaves ==
    held(keyboard, "DOWN", "S") /\ prevSprite.Y + spriteVelocity > windowHeight - prevSprite.H
LeftLeaves == held(keyboard, "LEFT", "A") /\ prevSprite.X - spriteVelocity < 0
RightLeaves ==
    held(keyboard, "RIGHT", "D") /\ prevSprite.X + spriteVelocity > windowWidth - prevSprite.W

\* C2 as stated: from (0,0), 128x128, step 10, in 800x600, under any held
\* keys the sprite stays in 0 <= x <= 672, 0 <= y <= 472; and whenever a
\* held direction's move would leave that range the position on that axis
\* is left at its prior value and spriteVelocity is unchanged.
C2_BlockedAxisKeepsPosition ==
    /\ InArena(spriteRect)
    /\ spriteVelocity = spriteVelocityInit
    /\ (UpLeaves \/ DownLeaves) => spriteRect.Y = prevSprite.Y
    /\ (LeftLeaves \/ RightLeaves) => spriteRect.X = prevSprite.X

\* C2 as amended: the sprite stays in that range; and whenever a held
\* direction's move would leave the range, and the opposite direction is not
\* held too, the position on that axis is left at its prior value (not
\* snapped to the edge); spriteVelocity is unchanged.
C2_BlockedDirectionKeepsPosition ==
    /\ InArena(spriteRect)
    /\ spriteVelocity = spriteVelocityInit
    /\ (UpLeaves /\ ~held(keyboard, "DOWN", "S")) => spriteRect.Y = prevSprite.Y
    /\ (DownLeaves /\ ~held(keyboard, "UP", "W")) => spriteRect.Y = prevSprite.Y
    /\ (LeftLeaves /\ ~held(keyboard, "RIGHT", "D")) => spriteRect.X = prevSprite.X
    /\ (RightLeaves /\ ~held(keyboard, "LEFT", "A")) => spriteRect.X = prevSprite.X

\* Right is held two pixels short of the right edge: the sprite stays there.
C2_Witness ==
    /\ RightLeaves
    /\ ~held(keyboard, "LEFT", "A")
    /\ Has(flog, "MoveSprite")
    /\ prevSprite.X > 0
    /\ prevSprite.X + prevSprite.W < windowWidth
    /\ spriteRect.X = prevSprite.X

---------------------------------------------------------------------------
(* Claims about the frame loop *)

QuitTransition(e) ==
    e.type = "QUIT" \/ (e.type = "KEYDOWN" /\ e.sym = "ESCAPE")

Terminated == pc \in {"returned", "closed", "exited"}

\* What a frame does after its drain.
FrameWork == {"Keys", "MoveSprite", "Clear", "CopyBackground", "MoveText",
              "PlaySDL", "CopyText", "CopySprite", "Present"}

\* What a frame does while it drains the queue.
DrainOps == {"Poll", "PlayGo", "SetDrawColor"}

DrawOps == {"Clear", "CopyBackground", "CopyText", "CopySprite", "Present"}

IsDraw(op) == op \in DrawOps

\* C3: a frame that drains a quit transition (window close, or escape
\* key-down) terminates the loop in that frame, and in that frame the sprite
\* is not moved, the text is not advanced, and nothing is cleared, copied or
\* presented -- whatever keys are held.
C3_QuitPrecedence ==
    \A i \in 1..Len(flog) :
        (flog[i].op = "Poll" /\ QuitTransition(flog[i].arg)) =>
            /\ Terminated
            /\ i + 1 = Len(flog)
            /\ flog[i + 1].op = "Return"
            /\ \A j \in 1..Len(flog) : flog[j].op \notin FrameWork
            /\ spriteRect = prevSprite
            /\ textRect = prevText
            /\ textXVelocity = prevVX
            /\ textYVelocity = prevVY

\* The loop has returned in its second frame, on a quit transition, with a
\* movement key held; the first frame had moved the sprite.
C3_Witness ==
    /\ pc = "returned"
    /\ frame = 1
    /\ moveKeyHeld(keyboard)
    /\ spriteRect # InitSpriteRect
    /\ \E i \in 1..Len(flog) : flog[i].op = "Poll" /\ QuitTransition(flog[i].arg)

\* A frame is complete, it drained no event, and its snapshot held no
\* movement key.
IdleFrame ==
    /\ pc = "delay"
    /\ ~Has(flog, "Poll")
    /\ \E i \in 1..Len(flog) : flog[i].op = "Keys" /\ ~anyMoveKey(flog[i].arg)

\* C4: in a frame with no movement key held and an empty event queue the
\* sprite rectangle is unchanged, the text has moved by exactly its velocity,
\* and the text's velocity is unchanged on an axis that did not reach a wall.
C4_IdleFrame ==
    IdleFrame =>
        /\ spriteRect = prevSprite
        /\ textRect = [prevText EXCEPT !.X = prevText.X + prevVX,
                                       !.Y = prevText.Y + prevVY]
        /\ (0 < textRect.X /\ textRect.X + textRect.W < windowWidth)
               => textXVelocity = prevVX
        /\ (0 < textRect.Y /\ textRect.Y + textRect.H < windowHeight)
               => textYVelocity = prevVY

\* The second of two idle frames: the sprite is still where Init put it and
\* the text has moved on, away from the walls.
C4_Witness ==
    /\ IdleFrame
    /\ frame = 1
    /\ nEvents = 0
    /\ spriteRect = InitSpriteRect
    /\ textRect.X = prevText.X + textVelocity
    /\ prevText.X # InitTextRect(<<textRect.W, textRect.H>>).X
    /\ textXVelocity = prevVX

\* C7 as stated: every write of the draw colour is the timer's, none the
\* frame loop's.
C7_SingleWriter == writers \subseteq {"timer"}

\* C7 as amended: the draw colour has two writers, the timer context and the
\* frame loop; the frame loop writes it only while handling a space
\* key-down (after playing the sprite sound), at no other point of a frame.
C7_LoopWritesOnlyOnSpace ==
    /\ writers \subseteq {"timer", "loop"}
    /\ \A i \in 1..Len(flog) :
         flog[i].op = "SetDrawColor" =>
            /\ i >= 3
            /\ flog[i - 1].op = "PlayGo"
            /\ flog[i - 2].op = "Poll"
            /\ flog[i - 2].arg.type = "KEYDOWN"
            /\ flog[i - 2].arg.sym = "SPACE"
            /\ "loop" \in writers
    /\ "loop" \in writers => nEvents > 0

\* Both contexts have written the draw colour, the loop in this frame.
C7_Witness ==
    /\ writers = {"timer", "loop"}
    /\ Has(flog, "SetDrawColor")

\* C8: once Run has returned the timer context calls randColor no more, in
\* particular not after Close has destroyed the renderer.
C8_NoFireAfterReturn ==
    [][(pc \in {"returned", "closed"}) => ~(gpc = "fire" /\ gpc' = "recv")]_vars

\* C9: in every frame the event queue is drained completely and in arrival
\* order before the held-key snapshot is read and before anything is drawn:
\* the drain ends on an empty queue, every event that had arrived by then
\* has been handled, and no event is handled later in the frame.
C9_DrainBeforeSnapshot ==
    LET polls == {i \in 1..Len(flog) : flog[i].op = "Poll"}
        nils == {n \in 1..Len(flog) : flog[n].op = "PollNil"}
    IN  /\ \A i, j \in polls : i < j => flog[i].arg.id < flog[j].arg.id
        /\ \A i \in polls : \A k \in 1..Len(queue) : flog[i].arg.id < queue[k].id
        /\ Cardinality(nils) <= 1
        /\ nils = {} => \A i \in 1..Len(flog) : flog[i].op \notin FrameWork
        /\ \A n \in nils :
              /\ \A j \in 1..(n - 1) : flog[j].op \in DrainOps
              /\ \A j \in (n + 1)..Len(flog) : flog[j].op \in FrameWork
              /\ \A k \in 1..Len(queue) : queue[k].id > flog[n].arg

\* A frame that drained two events and then went on to present.
C9_Witness ==
    /\ Count(flog, "Poll") >= 2
    /\ Has(flog, "Present")

FrameOrder == <<"Clear", "CopyBackground", "CopyText", "CopySprite", "Present">>

\* C10: a frame that does not terminate clears (with the current draw
\* colour), draws the background, the text and the sprite and presents,
\* once each and in that order; it advances the text exactly once and moves
\* the sprite at most once; text and sprite are drawn where that frame's
\* motion has put them.
C10_FrameOrder ==
    LET draws == SelectSeq(Ops(flog), IsDraw)
    IN  /\ Len(draws) <= Len(FrameOrder)
        /\ draws = SubSeq(FrameOrder, 1, Len(draws))
        /\ pc = "delay" =>
              /\ draws = FrameOrder
              /\ Count(flog, "MoveText") = 1
              /\ Count(flog, "MoveSprite") <= 1
              /\ textRect.X = prevText.X + prevVX
              /\ textRect.Y = prevText.Y + prevVY
        /\ \A i \in 1..Len(flog) :
              /\ flog[i].op = "CopyText" =>
                    /\ flog[i].arg = textRect
                    /\ \E j \in 1..(i - 1) : flog[j].op = "MoveText"
              /\ flog[i].op = "CopySprite" =>
                    /\ flog[i].arg = spriteRect
                    /\ \E j \in 1..(i - 1) : flog[j].op = "Keys"
              /\ (flog[i].op = "Clear" /\ "timer" \notin writers) =>
                    flog[i].arg = drawColor

\* A complete second frame in which the sprite was moved.
C10_Witness ==
    /\ pc = "delay"
    /\ frame = 1
    /\ Has(flog, "MoveSprite")
    /\ spriteRect # prevSprite
    /\ Count(flog, "Present") = 1

\* An event is taken off the queue in this step (PollEvent returned it).
Drains(e) ==
    /\ pc = "poll"
    /\ queue # <<>>
    /\ Head(queue) = e
    /\ queue' = Tail(queue)

DrainsQuit == \E k \in 1..MaxEvents, e \in EventKinds :
    /\ QuitTransition(e)
    /\ Drains([type |-> e.type, sym |-> e.sym, id |-> k])

heldDirs(kb) ==
    {d \in Arrows : \/ d = "UP" /\ held(kb, "UP", "W")
                    \/ d = "DOWN" /\ held(kb, "DOWN", "S")
                    \/ d = "LEFT" /\ held(kb, "LEFT", "A")
                    \/ d = "RIGHT" /\ held(kb, "RIGHT", "D")}

\* The rectangle r shifted by one step in direction d.
Shifted(r, d, v) ==
    CASE d = "UP" -> [r EXCEPT !.Y = r.Y - v]
      [] d = "DOWN" -> [r EXCEPT !.Y = r.Y + v]
      [] d = "LEFT" -> [r EXCEPT !.X = r.X - v]
      [] d = "RIGHT" -> [r EXCEPT !.X = r.X + v]

\* C12: with a single direction held, moveSprite shifts the sprite by exactly
\* one velocity step (10) in that direction when the shifted rectangle lies
\* wholly inside the arena, and leaves it unchanged otherwise; the other
\* axis and the size never change.  From (0,0), left gives (0,0) and right
\* gives (10,0).
C12_SingleDirectionStep ==
    /\ \A d \in Arrows :
         heldDirs(keyboard) = {d} =>
            LET to == Shifted(prevSprite, d, spriteVelocity)
            IN  spriteRect = IF InArena(to) THEN to ELSE prevSprite
    /\ (prevSprite = InitSpriteRect /\ heldDirs(keyboard) = {"LEFT"}) =>
            spriteRect = Rect(0, 0, spriteWidth, spriteHeight)
    /\ (prevSprite = InitSpriteRect /\ heldDirs(keyboard) = {"RIGHT"}) =>
            spriteRect = Rect(10, 0, spriteWidth, spriteHeight)

\* Right alone was held at the start position and the sprite is at (10,0).
C12_Witness ==
    /\ prevSprite = InitSpriteRect
    /\ heldDirs(keyboard) = {"RIGHT"}
    /\ Has(flog, "MoveSprite")
    /\ spriteRect.X = 10 /\ spriteRect.Y = 0

\* The text rectangle reaches at most one pixel past a wall.
TextWithinOnePixel ==
    /\ -1 <= textRect.X /\ textRect.X + textRect.W <= windowWidth + 1
    /\ -1 <= textRect.Y /\ textRect.Y + textRect.H <= windowHeight + 1

\* C13 as stated: in every reachable state the sprite and the text both lie
\* entirely inside the arena: 0 <= x, x + w <= 800, 0 <= y, y + h <= 600.
C13_BothInsideArena == InArena(spriteRect) /\ InArena(textRect)

\* C13, amended: in every reachable state the sprite lies entirely inside
\* the arena, and the text lies inside the arena widened by one pixel on
\* every side.
C13_SpriteInsideTextWithinOnePixel == InArena(spriteRect) /\ TextWithinOnePixel

\* The text has moved one pixel past the right wall.
C13_Witness ==
    /\ frame > 0
    /\ Has(flog, "MoveText")
    /\ textRect.X + textRect.W = windowWidth + 1
    /\ InArena(spriteRect)

DrainsMDown == \E k \in 1..MaxEvents :
    Drains([type |-> "KEYDOWN", sym |-> "m", id |-> k])

\* C14: the music-paused flag changes only in a step that drains an m
\* key-down: that step flips the flag when music is playing and leaves it
\* alone when music is not playing; no other event, frame step, timer fire
\* or teardown step changes it.  (Two m key-downs drained while music plays
\* therefore restore the flag.)
C14_PausedFlagOnlyOnM ==
    [][/\ musicPaused' # musicPaused => DrainsMDown /\ musicPlaying
       /\ DrainsMDown =>
            musicPaused' = (IF musicPlaying THEN ~musicPaused ELSE musicPaused)]_vars

\* Two m key-downs were drained in one frame while music plays: the flag is
\* back at its value from before them.
C14_Witness ==
    /\ musicPlaying
    /\ ~musicPaused
    /\ nEvents = 2
    /\ \E i, j \in 1..Len(flog) :
         /\ i < j
         /\ flog[i].op = "Poll" /\ flog[i].arg.sym = "m" /\ flog[i].arg.type = "KEYDOWN"
         /\ flog[j].op = "Poll" /\ flog[j].arg.sym = "m" /\ flog[j].arg.type = "KEYDOWN"

IsSpaceDown(x) ==
    x.op = "Poll" /\ x.arg.type = "KEYDOWN" /\ x.arg.sym = "SPACE"

\* C15: each space key-down drained in a frame is followed at once, in the
\* loop's own sequence of calls, by exactly one play of the sprite sound and
\* one colour randomization, before that frame's clear; nothing else the
\* loop drains (a key-up, another key) plays that sound or randomizes, so
\* the frame has as many plays and as many loop randomizations as space
\* key-downs, whatever the timer does meanwhile.
C15_SpaceSoundAndColour ==
    LET n == Len(flog)
        spaces == {i \in 1..n : IsSpaceDown(flog[i])}
        plays == {i \in 1..n : flog[i].op = "PlayGo"}
        sets == {i \in 1..n : flog[i].op = "SetDrawColor"}
        clears == {i \in 1..n : flog[i].op = "Clear"}
    IN  /\ plays = {i + 1 : i \in spaces}
        /\ sets = {i + 2 : i \in spaces}
        /\ \A i \in sets : \A c \in clears : i < c

\* A frame drained a space key-up and a space key-down, played and
\* randomized once, and has cleared.
C15_Witness ==
    /\ \E i \in 1..Len(flog) :
         flog[i].op = "Poll" /\ flog[i].arg.type = "KEYUP" /\ flog[i].arg.sym = "SPACE"
    /\ \E i \in 1..Len(flog) : IsSpaceDown(flog[i])
    /\ Count(flog, "PlayGo") = 1
    /\ Count(flog, "SetDrawColor") = 1
    /\ Has(flog, "Clear")

Channel == 0..255

\* C16: every colour randColor writes, from the timer or from a space
\* key-down, has its red, green and blue in 0..255, and so has DrawColor in
\* every reachable state.
C16_ColourDomain ==
    /\ \A k \in 1..3 : drawColor[k] \in Channel
    /\ \A i \in 1..Len(flog) :
         flog[i].op = "SetDrawColor" => \A k \in 1..3 : flog[i].arg[k] \in Channel

\* Both contexts have written, and the colour holds both ends of the range.
C16_Witness ==
    /\ writers = {"timer", "loop"}
    /\ Has(flog, "SetDrawColor")
    /\ drawColor[1] = 255
    /\ drawColor[2] = 0
    /\ drawColor[3] = 128

\* The speed of the text on an axis.
Abs(n) == IF n < 0 THEN -n ELSE n

\* C17: the text never overshoots a wall by a full velocity step: on each
\* axis, -|v| < position and position + size < arenaBound + |v|, in every
\* reachable state.
C17_OvershootBelowOneStep ==
    /\ -Abs(textXVelocity) < textRect.X
    /\ textRect.X + textRect.W < windowWidth + Abs(textXVelocity)
    /\ -Abs(textYVelocity) < textRect.Y
    /\ textRect.Y + textRect.H < windowHeight + Abs(textYVelocity)

\* The text has just bounced one pixel above the top wall.
C17_Witness ==
    /\ frame > 0
    /\ textRect.Y = -1
    /\ prevVY < 0
    /\ textYVelocity > 0

\* The displacement of a held direction whose step from coordinate `from`
\* keeps the rectangle inside [0, bound]; 0 if not held or not permitted.
StepBack(isHeld, from, v) == IF isHeld /\ from - v >= 0 THEN -v ELSE 0
StepForth(isHeld, from, size, bound, v) ==
    IF isHeld /\ from + size + v <= bound THEN v ELSE 0

BothHeldY == {"UP", "DOWN"} \subseteq heldDirs(keyboard)
BothHeldX == {"LEFT", "RIGHT"} \subseteq heldDirs(keyboard)

\* C18 as stated: with both keys of an axis held, the position on that axis
\* after the frame is the frame-start position plus the displacements of
\* the held directions whose move is permitted from the frame-start
\* position.
C18_PermittedFromFrameStart ==
    LET p == prevSprite
        v == spriteVelocity
    IN  /\ BothHeldY =>
              spriteRect.Y = p.Y + StepBack(TRUE, p.Y, v)
                                 + StepForth(TRUE, p.Y, p.H, windowHeight, v)
        /\ BothHeldX =>
              spriteRect.X = p.X + StepBack(TRUE, p.X, v)
                                 + StepForth(TRUE, p.X, p.W, windowWidth, v)

\* C18, amended: with both keys of an axis held, the directions are
\* evaluated in the order up, down (left, right), the second on the
\* position the first has left: the position after the frame is the
\* frame-start position plus the first direction's displacement if its move
\* is permitted from the frame-start position, plus the second direction's
\* displacement if its move is permitted from there.
C18_PermittedInSequence ==
    LET p == prevSprite
        v == spriteVelocity
        up == StepBack(TRUE, p.Y, v)
        left == StepBack(TRUE, p.X, v)
    IN  /\ BothHeldY =>
              spriteRect.Y = p.Y + up + StepForth(TRUE, p.Y + up, p.H, windowHeight, v)
        /\ BothHeldX =>
              spriteRect.X = p.X + left + StepForth(TRUE, p.X + left, p.W, windowWidth, v)

\* Up and down were held with the sprite against the bottom wall, where down
\* is not permitted from the frame-start position: the sprite went up and
\* came back down.
C18_Witness ==
    /\ BothHeldY
    /\ Has(flog, "MoveSprite")
    /\ prevSprite.Y + prevSprite.H + spriteVelocity > windowHeight
    /\ spriteRect.Y = prevSprite.Y

\* C19: the two text velocities keep the magnitude textVelocity (2) in every
\* reachable state; a step changes a velocity only by negating it, and only
\* the loop's moveText step does so.
C19_SpeedInvariant ==
    [][/\ Abs(textXVelocity) = textVelocity /\ Abs(textYVelocity) = textVelocity
       /\ Abs(textXVelocity') = textVelocity /\ Abs(textYVelocity') = textVelocity
       /\ textXVelocity' \in {textXVelocity, -textXVelocity}
       /\ textYVelocity' \in {textYVelocity, -textYVelocity}
       /\ <<textXVelocity, textYVelocity>>' # <<textXVelocity, textYVelocity>> =>
            /\ pc = "render"
            /\ Has(flog', "MoveText")]_vars

\* moveText has turned the horizontal velocity to -2 at the right wall.
C19_Witness ==
    /\ Has(flog, "MoveText")
    /\ Has(flog, "PlaySDL")
    /\ textXVelocity = -textVelocity
    /\ textRect.X + textRect.W >= windowWidth

\* The last moveText turned the velocity of the axis.
FlippedX == frame > 0 /\ textXVelocity # prevVX
FlippedY == frame > 0 /\ textYVelocity # prevVY

\* The free span of the axis is more than two steps.
RoomX == windowWidth - textRect.W > 2 * Abs(textXVelocity)
RoomY == windowHeight - textRect.H > 2 * Abs(textYVelocity)

\* From coordinate `from` at a wall (near: from <= 0, far otherwise) the
\* coordinate `to` lies further inside.
Inward(from, to) == IF from <= 0 THEN to > from ELSE to < from

\* C20: on an axis whose free span (arenaBound - size) exceeds 2*|v|, a
\* frame that turns the axis's velocity is followed by a frame that does not
\* turn it and that moves the rectangle back toward the interior.
C20_NoFlipTwiceInARow ==
    [][/\ (FlippedX /\ RoomX) =>
            /\ textXVelocity' = textXVelocity
            /\ Inward(textRect.X, textRect'.X)
       /\ (FlippedY /\ RoomY) =>
            /\ textYVelocity' = textYVelocity
            /\ Inward(textRect.Y, textRect'.Y)]_vars

\* The frame before this one turned the horizontal velocity at the right
\* wall; this frame kept it and moved the text back inside.
C20_Witness ==
    /\ frame >= 2
    /\ RoomX
    /\ prevText.X + prevText.W >= windowWidth
    /\ textXVelocity = prevVX
    /\ textXVelocity < 0
    /\ textRect.X < prevText.X

====
